---- MODULE Spec2Model ----
(***************************************************************************)
(* MeanAbsoluteError (pytorch_lightning/metrics/regression/                *)
(* mean_absolute_error.py): a streaming accumulator of two registered      *)
(* states, sum_abs_error (float32 scalar) and total (int64 scalar), with   *)
(* update(preds, target) and compute().  reset(), forward() and the        *)
(* distributed synchronisation belong to the Metric base class, which is   *)
(* not part of the sources; they are modelled from the specification.      *)
(*                                                                         *)
(* Numbers.  A float32 value is a record [cls, v]: cls = "fin" with v the  *)
(* value as an integer count of a power-of-two unit (so every finite value *)
(* of the model is a float32 value, and rounding to 24 significant bits is *)
(* float32's rounding), cls = "inf" with v the sign, or cls = "nan".       *)
(***************************************************************************)
EXTENDS Integers, Sequences, FiniteSets, TLC

(***************************************************************************)
(* Bounds of the model.                                                    *)
(***************************************************************************)
\* Largest number of elements of an input tensor.
MaxNumel == 2
\* Cap on the running element count: update is not taken beyond it.
MaxTotal == 4
\* Largest number of consecutive compute() calls that are recorded.
MaxReads == 2
\* Number of distributed participants.
NumRanks == 2

(***************************************************************************)
(* float32 arithmetic (the dtype of torch.tensor(0.0)).                    *)
(***************************************************************************)
\* Significand width of float32.
MantissaBits == 24

RECURSIVE Pow2(_)
Pow2(k) == IF k = 0 THEN 1 ELSE 2 * Pow2(k - 1)

\* The smallest integer float32 cannot tell from its successor: 2^24 units.
Big == Pow2(MantissaBits)
\* The smallest 24-bit significand: 2^23.
HalfBig == Pow2(MantissaBits - 1)

Fin(n) == [cls |-> "fin", v |-> n]
PosInf == [cls |-> "inf", v |-> 1]
NegInf == [cls |-> "inf", v |-> -1]
NaN    == [cls |-> "nan", v |-> 0]

IsNaN(a) == a.cls = "nan"
IsFin(a) == a.cls = "fin"

\* Spacing of float32 values around the non-negative integer n.
RECURSIVE Ulp(_)
Ulp(n) == IF n < Big THEN 1 ELSE 2 * Ulp(n \div 2)

\* Round a non-negative integer to the nearest float32, ties to even.
RoundNearestEven(n) ==
    LET u == Ulp(n)
        q == n \div u
        r == n % u
    IN  IF 2 * r > u \/ (2 * r = u /\ q % 2 = 1) THEN (q + 1) * u ELSE q * u

Round32(n) == IF n < 0 THEN -RoundNearestEven(-n) ELSE RoundNearestEven(n)

FNeg(a) == IF IsNaN(a) THEN NaN ELSE [cls |-> a.cls, v |-> -a.v]

FAbs(a) == IF IsNaN(a) THEN NaN
           ELSE [cls |-> a.cls, v |-> IF a.v < 0 THEN -a.v ELSE a.v]

FAdd(a, b) ==
    IF IsNaN(a) \/ IsNaN(b) THEN NaN
    ELSE IF a.cls = "inf" /\ b.cls = "inf"
         THEN (IF a.v = b.v THEN a ELSE NaN)
    ELSE IF a.cls = "inf" THEN a
    ELSE IF b.cls = "inf" THEN b
    ELSE Fin(Round32(a.v + b.v))

FSub(a, b) == FAdd(a, FNeg(b))

\* IEEE comparisons: every comparison with NaN is false.
FGe(a, b) ==
    /\ ~IsNaN(a)
    /\ ~IsNaN(b)
    /\ IF a.cls = "inf" THEN (a.v = 1 \/ b = a)
       ELSE IF b.cls = "inf" THEN b.v = -1
       ELSE a.v >= b.v

FEq(a, b) == FGe(a, b) /\ FGe(b, a)

(***************************************************************************)
(* The result of a float32 division is in general no multiple of the unit: *)
(* a quotient is a record [cls, sig, exp], for cls = "fin" the value       *)
(* sig * 2^exp units with 2^23 <= |sig| < 2^24 (or sig = 0, exp = 0).      *)
(***************************************************************************)
QVal(s, e) == [cls |-> "fin", sig |-> s, exp |-> e]
QInf(s)    == [cls |-> "inf", sig |-> s, exp |-> 0]
QNaN       == [cls |-> "nan", sig |-> 0, exp |-> 0]

\* p / q for integers p, q > 0, rounded to 24 significant bits, ties to even.
RECURSIVE DivRound(_, _, _)
DivRound(p, q, e) ==
    IF p >= q * Big THEN DivRound(p, 2 * q, e + 1)
    ELSE IF p < q * HalfBig THEN DivRound(2 * p, q, e - 1)
    ELSE LET d == p \div q
             r == p % q
             m == IF 2 * r > q \/ (2 * r = q /\ d % 2 = 1) THEN d + 1 ELSE d
         IN  IF m = Big THEN <<HalfBig, e + 1>>
             ELSE <<m, e>>

\* float32 a divided by the integer n >= 0 (n is converted exactly).
FDiv(a, n) ==
    IF IsNaN(a) THEN QNaN
    ELSE IF a.cls = "inf" THEN QInf(a.v)
    ELSE IF n = 0 THEN (IF a.v = 0 THEN QNaN ELSE QInf(IF a.v < 0 THEN -1 ELSE 1))
    ELSE IF a.v = 0 THEN QVal(0, 0)
    ELSE LET me == DivRound(IF a.v < 0 THEN -a.v ELSE a.v, n, 0)
         IN  QVal(IF a.v < 0 THEN -me[1] ELSE me[1], me[2])

(***************************************************************************)
(* Tensors: a shape (a tuple of dimensions) and the elements in row-major  *)
(* order.                                                                  *)
(***************************************************************************)
\* Element values the predictions and the targets are drawn from: zero, one
\* unit, the first value whose successor float32 cannot represent, and NaN.
PredValues == {Fin(0), Fin(1), Fin(Big), NaN}
TargetValues == {Fin(0), Fin(1)}

RECURSIVE Prod(_)
Prod(s) == IF s = <<>> THEN 1 ELSE Head(s) * Prod(Tail(s))

\* Shapes with at most MaxNumel elements: the scalar, the vectors and the
\* one-row matrices.
Shapes ==
    {<<>>}
    \cup {<<a>> : a \in 0..MaxNumel}
    \cup {<<1, b>> : b \in 0..MaxNumel}

\* torch.tensor(d).reshape(s)
tensor(s, d) == [shape |-> s, data |-> d]

\* torch.full(s, v)
full(s, v) == [shape |-> s, data |-> [i \in 1..Prod(s) |-> v]]

\* len(target) in place of target.numel()
numel_first_dim(x) == IF x.shape = <<>> THEN 1 ELSE Head(x.shape)

\* target.numel()
numel(x) == Prod(x.shape)

\* preds - target for equal shapes (the assertion excludes broadcasting).
torch_sub(x, y) ==
    [shape |-> x.shape, data |-> [i \in DOMAIN x.data |-> FSub(x.data[i], y.data[i])]]

\* abs left out
torch_abs_identity(x) == x

torch_abs(x) ==
    [shape |-> x.shape, data |-> [i \in DOMAIN x.data |-> FAbs(x.data[i])]]

RECURSIVE SumTo(_, _)
SumTo(d, k) == IF k = 0 THEN Fin(0) ELSE FAdd(SumTo(d, k - 1), d[k])

\* torch.sum of a float32 tensor: a float32 scalar.
torch_sum(x) == SumTo(x.data, Len(x.data))

(***************************************************************************)
(* MeanAbsoluteError.  An instance is the record of its two registered     *)
(* states.                                                                 *)
(***************************************************************************)
\* a default of 1.0
default_sum_abs_error_one == Fin(1)

\* add_state("sum_abs_error", default=torch.tensor(0.0), ...)
default_sum_abs_error == Fin(0)
\* add_state("total", default=torch.tensor(0), ...)
default_total == 0

\* The instance __init__ leaves behind.
Fresh == [sum_abs_error |-> default_sum_abs_error, total |-> default_total]

\* sum_abs_error assigned (=) where it is to be added to (+=)
update_overwrites_sum(self, preds, target) ==
    IF preds.shape # target.shape
    THEN [raised |-> TRUE, state |-> self]
    ELSE [raised |-> FALSE,
          state  |-> [sum_abs_error |-> torch_sum(torch_abs(torch_sub(preds, target))),
                      total         |-> self.total + numel(target)]]

\* total assigned (=) where it is to be added to (+=)
update_overwrites_total(self, preds, target) ==
    IF preds.shape # target.shape
    THEN [raised |-> TRUE, state |-> self]
    ELSE [raised |-> FALSE,
          state  |-> [sum_abs_error |-> FAdd(self.sum_abs_error,
                                             torch_sum(torch_abs(torch_sub(preds, target)))),
                      total         |-> numel(target)]]

\* total left alone
update_forgets_total(self, preds, target) ==
    IF preds.shape # target.shape
    THEN [raised |-> TRUE, state |-> self]
    ELSE [raised |-> FALSE,
          state  |-> [sum_abs_error |-> FAdd(self.sum_abs_error,
                                             torch_sum(torch_abs(torch_sub(preds, target)))),
                      total         |-> self.total]]

\* the element count added before the shapes are compared
update_counts_first(self, preds, target) ==
    IF preds.shape # target.shape
    THEN [raised |-> TRUE,
          state  |-> [sum_abs_error |-> self.sum_abs_error,
                      total         |-> self.total + numel(target)]]
    ELSE [raised |-> FALSE,
          state  |-> [sum_abs_error |-> FAdd(self.sum_abs_error,
                                             torch_sum(torch_abs(torch_sub(preds, target)))),
                      total         |-> self.total + numel(target)]]

\* update(preds, target): the assertion, then the two in-place additions.
\* The result says whether the call raised and gives the instance after it.
update(self, preds, target) ==
    IF preds.shape # target.shape
    THEN [raised |-> TRUE, state |-> self]
    ELSE LET abs_error == torch_abs(torch_sub(preds, target))
         IN  [raised |-> FALSE,
              state  |-> [sum_abs_error |-> FAdd(self.sum_abs_error, torch_sum(abs_error)),
                          total         |-> self.total + numel(target)]]

\* the states cleared once the value is computed
compute_then_clears(self) ==
    [value |-> FDiv(self.sum_abs_error, self.total),
     state |-> [sum_abs_error |-> Fin(0), total |-> 0]]

\* compute(): returns sum_abs_error / total.  The result gives the value and
\* the instance after the call.
compute(self) == [value |-> FDiv(self.sum_abs_error, self.total), state |-> self]

(***************************************************************************)
(* The Metric base class, from the specification.                          *)
(***************************************************************************)
\* reset(): every registered state back to its default.
reset(self) == [sum_abs_error |-> default_sum_abs_error, total |-> default_total]

\* What a call returns: nothing, an exception, or a value.
RetNone     == [kind |-> "none",  value |-> QNaN]
RetRaise    == [kind |-> "raise", value |-> QNaN]
RetValue(q) == [kind |-> "value", value |-> q]

\* forward(preds, target): update, then compute() when compute_on_step.
forward(self, on_step, preds, target) ==
    LET u == update(self, preds, target)
    IN  IF u.raised THEN [state |-> u.state, ret |-> RetRaise]
        ELSE IF on_step
             THEN [state |-> compute(u.state).state,
                   ret   |-> RetValue(compute(u.state).value)]
             ELSE [state |-> u.state, ret |-> RetNone]

(***************************************************************************)
(* One instance driven by its caller.                                      *)
(***************************************************************************)
VARIABLES
    sum_abs_error,    \* self.sum_abs_error
    total,            \* self.total
    compute_on_step,  \* the constructor's compute_on_step
    op,               \* the last call: "init", "update", "compute", "reset", "forward"
    ret,              \* what that call returned
    seen_sum,         \* history: absolute error accumulated since the last reset
    seen_total,       \* history: elements seen since the last reset
    discarded,        \* history: what the resets threw away: "none" (no reset yet),
                      \*   "nothing" (only default states), "some" (accumulated error)
    last_numel,       \* history: numel(target) of the last call if it accumulated
    reads             \* history: results of the compute() calls since the last other call

Self == [sum_abs_error |-> sum_abs_error, total |-> total]

\* sum over i of |preds[i] - target[i]|, element by element in float32.
RECURSIVE AbsErrTo(_, _, _)
AbsErrTo(p, t, k) ==
    IF k = 0 THEN Fin(0)
    ELSE FAdd(AbsErrTo(p, t, k - 1), FAbs(FSub(p[k], t[k])))

ExpectedAbsSum(preds, target) == AbsErrTo(preds.data, target.data, Len(target.data))

single_vars == <<sum_abs_error, total, compute_on_step, op, ret, seen_sum, seen_total,
                 discarded, last_numel, reads>>

SingleInit ==
    /\ sum_abs_error = Fresh.sum_abs_error
    /\ total = Fresh.total
    /\ op = "init"
    /\ ret = RetNone
    /\ seen_sum = Fin(0)
    /\ seen_total = 0
    /\ discarded = "none"
    /\ last_numel = 0
    /\ reads = <<>>

\* The history after a successful accumulation of (preds, target).
Seen(preds, target) ==
    /\ last_numel' = Len(target.data)
    /\ seen_sum' = FAdd(seen_sum, ExpectedAbsSum(preds, target))
    /\ seen_total' = seen_total + Len(target.data)

NotSeen ==
    /\ last_numel' = 0
    /\ UNCHANGED <<seen_sum, seen_total>>

\* metric.update(preds, target)
Update(preds, target) ==
    LET u == update(Self, preds, target)
    IN  /\ u.state.total <= MaxTotal
        /\ sum_abs_error' = u.state.sum_abs_error
        /\ total' = u.state.total
        /\ op' = "update"
        /\ ret' = IF u.raised THEN RetRaise ELSE RetNone
        /\ IF u.raised THEN NotSeen ELSE Seen(preds, target)
        /\ reads' = <<>>
        /\ UNCHANGED <<compute_on_step, discarded>>

\* metric.compute()
Compute ==
    LET c == compute(Self)
    IN  /\ Len(reads) < MaxReads
        /\ sum_abs_error' = c.state.sum_abs_error
        /\ total' = c.state.total
        /\ ret' = RetValue(c.value)
        /\ reads' = Append(reads, c.value)
        /\ op' = "compute"
        /\ NotSeen
        /\ UNCHANGED <<compute_on_step, discarded>>

\* metric.reset()
Reset ==
    /\ sum_abs_error' = reset(Self).sum_abs_error
    /\ total' = reset(Self).total
    /\ op' = "reset"
    /\ ret' = RetNone
    /\ seen_sum' = Fin(0)
    /\ seen_total' = 0
    /\ discarded' = IF Self # Fresh \/ discarded = "some" THEN "some" ELSE "nothing"
    /\ last_numel' = 0
    /\ reads' = <<>>
    /\ UNCHANGED compute_on_step

\* metric(preds, target)
Forward(preds, target) ==
    LET f == forward(Self, compute_on_step, preds, target)
    IN  /\ f.state.total <= MaxTotal
        /\ sum_abs_error' = f.state.sum_abs_error
        /\ total' = f.state.total
        /\ op' = "forward"
        /\ ret' = f.ret
        /\ IF f.ret.kind = "raise" THEN NotSeen ELSE Seen(preds, target)
        /\ reads' = <<>>
        /\ UNCHANGED <<compute_on_step, discarded>>

(***************************************************************************)
(* Two instances fed the same data, one in two updates and one in a single *)
(* update of the concatenation.                                            *)
(***************************************************************************)
VARIABLES
    split,     \* the instance given (p1, t1) and then (p2, t2)
    joined,    \* the instance given cat(p1, p2) and cat(t1, t2)
    phase,     \* "same": both were given the same updates; "compared": the
               \*   last step fed them the two ways
    exact      \* history: the sum of the absolute errors without rounding

add_vars == <<split, joined, phase, exact>>

AddInit ==
    /\ split = Fresh
    /\ joined = Fresh
    /\ phase = "same"
    /\ exact = Fin(0)

\* torch.cat((x, y)): along dimension 0.
cat(x, y) ==
    [shape |-> <<Head(x.shape) + Head(y.shape)>> \o Tail(x.shape),
     data  |-> x.data \o y.data]

\* Pairs of shapes torch.cat accepts whose concatenation has at most MaxNumel
\* elements.
CatShapes ==
    {x \in Shapes \X Shapes :
        /\ x[1] # <<>>
        /\ x[2] # <<>>
        /\ Tail(x[1]) = Tail(x[2])
        /\ Prod(x[1]) + Prod(x[2]) <= MaxNumel}

\* sum over i of |preds[i] - target[i]| in exact arithmetic (NaN if an
\* element is NaN).
RECURSIVE ExactAbsTo(_, _, _)
ExactAbsTo(p, t, k) ==
    IF k = 0 THEN Fin(0)
    ELSE LET rest == ExactAbsTo(p, t, k - 1)
             d == p[k].v - t[k].v
         IN  IF IsNaN(rest) \/ ~IsFin(p[k]) \/ ~IsFin(t[k]) THEN NaN
             ELSE Fin(rest.v + (IF d < 0 THEN -d ELSE d))

ExactAdd(a, b) == IF IsFin(a) /\ IsFin(b) THEN Fin(a.v + b.v) ELSE NaN

\* Both instances are given the same update.
Both(preds, target) ==
    /\ phase = "same"
    /\ split' = update(split, preds, target).state
    /\ joined' = update(joined, preds, target).state
    /\ exact' = split'.sum_abs_error
    /\ UNCHANGED phase

\* One instance is given the two parts in turn, the other their concatenation.
TwoWays(p1, t1, p2, t2) ==
    /\ phase = "same"
    /\ split' = update(update(split, p1, t1).state, p2, t2).state
    /\ joined' = update(joined, cat(p1, p2), cat(t1, t2)).state
    /\ phase' = "compared"
    /\ exact' = ExactAdd(split.sum_abs_error,
                         ExactAdd(ExactAbsTo(p1.data, t1.data, Len(t1.data)),
                                  ExactAbsTo(p2.data, t2.data, Len(t2.data))))

\* Both instances are reset.
Restart ==
    /\ phase = "compared"
    /\ split' = reset(split)
    /\ joined' = reset(joined)
    /\ phase' = "same"
    /\ exact' = Fin(0)

(***************************************************************************)
(* Several participants, each with its own instance, and the all-reduce    *)
(* of the registered states (from the specification).                      *)
(***************************************************************************)
VARIABLES
    ranks,       \* participant -> its instance
    rank_seen,   \* history: participant -> what its own updates since its reset add up to
    first_hand,  \* history: participant -> its states hold its own updates only
    synced,      \* the last call was the synchronisation or a compute() after it
    reduced_own, \* history: the last synchronisation reduced first-hand states only
    results      \* participant -> what compute() returned since the synchronisation

dist_vars == <<ranks, rank_seen, first_hand, synced, reduced_own, results>>

Ranks == 1..NumRanks

DistInit ==
    /\ ranks = [r \in Ranks |-> Fresh]
    /\ rank_seen = [r \in Ranks |-> Fresh]
    /\ first_hand = [r \in Ranks |-> TRUE]
    /\ synced = FALSE
    /\ reduced_own = FALSE
    /\ results = [r \in Ranks |-> RetNone]

RECURSIVE SumTotals(_, _)
SumTotals(f, k) == IF k = 0 THEN 0 ELSE SumTotals(f, k - 1) + f[k].total

RECURSIVE SumErrors(_, _)
SumErrors(f, k) == IF k = 0 THEN Fin(0) ELSE FAdd(SumErrors(f, k - 1), f[k].sum_abs_error)

\* dist_reduce_fx = "mean" in place of "sum"
total_reduce_mean(f) == SumTotals(f, NumRanks) \div NumRanks

\* dist_reduce_fx = "sum" of sum_abs_error: the participants' values added in
\* rank order.
sum_abs_error_reduce(f) == SumErrors(f, NumRanks)

\* dist_reduce_fx = "sum" of total.
total_reduce(f) == SumTotals(f, NumRanks)

\* The synchronisation: every registered state of every participant becomes
\* its reduction over all participants.
sync(f) ==
    [r \in Ranks |-> [sum_abs_error |-> sum_abs_error_reduce(f),
                      total         |-> total_reduce(f)]]

\* Participant r calls update(preds, target).
RankUpdate(r, preds, target) ==
    LET u == update(ranks[r], preds, target)
    IN  /\ SumTotals(ranks, NumRanks) + Len(target.data) <= MaxTotal
        /\ ranks' = [ranks EXCEPT ![r] = u.state]
        /\ rank_seen' = [rank_seen EXCEPT ![r] =
              IF u.raised THEN @
              ELSE [sum_abs_error |-> FAdd(@.sum_abs_error, ExpectedAbsSum(preds, target)),
                    total         |-> @.total + Len(target.data)]]
        /\ synced' = FALSE
        /\ results' = [q \in Ranks |-> RetNone]
        /\ UNCHANGED <<first_hand, reduced_own>>

\* The synchronisation step.
Sync ==
    /\ SumTotals(ranks, NumRanks) <= MaxTotal
    /\ ranks' = sync(ranks)
    /\ first_hand' = [r \in Ranks |-> FALSE]
    /\ synced' = TRUE
    /\ reduced_own' = \A r \in Ranks : first_hand[r]
    /\ results' = [q \in Ranks |-> RetNone]
    /\ UNCHANGED rank_seen

\* Participant r calls compute() on the synchronised states.
RankCompute(r) ==
    LET c == compute(ranks[r])
    IN  /\ synced
        /\ ranks' = [ranks EXCEPT ![r] = c.state]
        /\ results' = [results EXCEPT ![r] = RetValue(c.value)]
        /\ UNCHANGED <<rank_seen, first_hand, synced, reduced_own>>

\* Participant r calls reset().
RankReset(r) ==
    /\ ranks' = [ranks EXCEPT ![r] = reset(@)]
    /\ rank_seen' = [rank_seen EXCEPT ![r] = Fresh]
    /\ first_hand' = [first_hand EXCEPT ![r] = TRUE]
    /\ synced' = FALSE
    /\ results' = [q \in Ranks |-> RetNone]
    /\ UNCHANGED reduced_own

(***************************************************************************)
(* The specifications.                                                     *)
(***************************************************************************)
vars == <<single_vars, add_vars, dist_vars>>

\* An instance built with the default compute_on_step, used through update,
\* compute and reset.
Init == SingleInit /\ compute_on_step = TRUE /\ AddInit /\ DistInit

\* Inputs of equal shape s, with every choice of elements.
Preds(s) == {tensor(s, d) : d \in [1..Prod(s) -> PredValues]}
Targets(s) == {tensor(s, d) : d \in [1..Prod(s) -> TargetValues]}

\* Pairs of different shapes.  The assertion reads the shapes and nothing else,
\* so these inputs are filled with ones against zeros.
Mismatched == {x \in Shapes \X Shapes : x[1] # x[2]}

\* What the calls on the single instance leave alone.
OthersIdle == UNCHANGED <<add_vars, dist_vars>>

Next ==
    \/ \E s \in Shapes :
          /\ total + Prod(s) <= MaxTotal
          /\ \E preds \in Preds(s), target \in Targets(s) : Update(preds, target)
          /\ OthersIdle
    \/ \E st \in Mismatched :
          Update(full(st[1], Fin(1)), full(st[2], Fin(0))) /\ OthersIdle
    \/ Compute /\ OthersIdle
    \/ Reset /\ OthersIdle

Spec == Init /\ [][Next]_vars

\* An instance built with either compute_on_step, used through the combined
\* entry point.
FwdInit == SingleInit /\ compute_on_step \in BOOLEAN /\ AddInit /\ DistInit

FwdNext ==
    \/ \E s \in Shapes :
          /\ total + Prod(s) <= MaxTotal
          /\ \E preds \in Preds(s), target \in Targets(s) : Forward(preds, target)
          /\ OthersIdle
    \/ \E st \in Mismatched :
          Forward(full(st[1], Fin(1)), full(st[2], Fin(0))) /\ OthersIdle
    \/ Compute /\ OthersIdle
    \/ Reset /\ OthersIdle

FwdSpec == FwdInit /\ [][FwdNext]_vars

\* Two instances, fed in two updates and in one.
AddNext ==
    \/ \E s \in Shapes :
          /\ split.total + Prod(s) <= MaxTotal
          /\ \E preds \in Preds(s), target \in Targets(s) : Both(preds, target)
          /\ UNCHANGED <<single_vars, dist_vars>>
    \/ \E c \in CatShapes :
          /\ split.total + Prod(c[1]) + Prod(c[2]) <= MaxTotal
          /\ \E p1 \in Preds(c[1]), t1 \in Targets(c[1]),
                p2 \in Preds(c[2]), t2 \in Targets(c[2]) : TwoWays(p1, t1, p2, t2)
          /\ UNCHANGED <<single_vars, dist_vars>>
    \/ Restart /\ UNCHANGED <<single_vars, dist_vars>>

AddSpec == Init /\ [][AddNext]_vars

\* The participants feed one-element (or empty) batches in any interleaving.
DistNext ==
    \/ \E r \in Ranks, s \in {<<0>>, <<1>>} :
          /\ \E preds \in Preds(s), target \in Targets(s) : RankUpdate(r, preds, target)
          /\ UNCHANGED <<single_vars, add_vars>>
    \/ Sync /\ UNCHANGED <<single_vars, add_vars>>
    \/ \E r \in Ranks : RankCompute(r) /\ UNCHANGED <<single_vars, add_vars>>
    \/ \E r \in Ranks : RankReset(r) /\ UNCHANGED <<single_vars, add_vars>>

DistSpec == Init /\ [][DistNext]_vars

(***************************************************************************)
(* Properties of one instance.                                             *)
(***************************************************************************)
Empty == total = 0
Accumulating == total > 0

\* C1: the two states hold what the successful updates since the last reset
\* (or since construction) accumulated, sum_abs_error the float32 sum of the
\* absolute errors and total the number of elements, and compute() returns
\* their quotient.
C1_ComputeIsMeanSinceReset ==
    /\ sum_abs_error = seen_sum
    /\ total = seen_total
    /\ op = "compute" => ret = RetValue(FDiv(seen_sum, seen_total))

\* compute() has returned a finite non-zero mean of three or more elements
\* accumulated after a reset.
C1_Witness ==
    /\ op = "compute"
    /\ discarded = "some"
    /\ seen_total >= 3
    /\ ret.value.cls = "fin"
    /\ ret.value.sig > 0

\* C2: update with preds.shape # target.shape raises and leaves both states
\* as they were.
C2_MismatchRaisesStateKept ==
    /\ [](\A st \in Mismatched :
            update(Self, full(st[1], Fin(1)), full(st[2], Fin(0)))
                = [raised |-> TRUE, state |-> Self])
    /\ [][(op' = "update" /\ ret' = RetRaise)
            => (sum_abs_error' = sum_abs_error /\ total' = total)]_vars

\* An update has raised on an instance that holds accumulated error.
C2_Witness ==
    /\ op = "update"
    /\ ret = RetRaise
    /\ total > 0
    /\ IsFin(sum_abs_error)
    /\ sum_abs_error.v > 0

\* C4 as stated: between resets both states never decrease, and a successful
\* update adds exactly numel(target) to total.
C4_Original ==
    [][op' # "reset" =>
          /\ FGe(sum_abs_error', sum_abs_error)
          /\ total' >= total
          /\ (op' = "update" /\ ret' = RetNone) => total' = total + last_numel']_vars

\* C4: between resets total never decreases and a successful update adds
\* exactly numel(target) to it; sum_abs_error never decreases while it is a
\* number, and once it is NaN it stays NaN until the reset.
C4_MonotoneUnlessNaN ==
    [][op' # "reset" =>
          /\ IF IsNaN(sum_abs_error) THEN IsNaN(sum_abs_error')
             ELSE IsNaN(sum_abs_error') \/ FGe(sum_abs_error', sum_abs_error)
          /\ total' >= total
          /\ (op' = "update" /\ ret' = RetNone) => total' = total + last_numel']_vars

\* A successful update of some elements onto an accumulated error beyond
\* 2^24 units, where float32 additions round.
C4_Witness ==
    /\ op = "update"
    /\ ret = RetNone
    /\ last_numel > 0
    /\ total > last_numel
    /\ IsFin(sum_abs_error)
    /\ sum_abs_error.v > Big

\* C5 as stated: a fresh instance is Empty, every successful update leads to
\* Accumulating, compute keeps the state and reset leads to Empty.
C5_Original ==
    /\ Empty
    /\ [][/\ (op' = "update" /\ ret' = RetNone) => Accumulating'
          /\ op' = "compute" => (Empty' <=> Empty)
          /\ op' = "reset" => Empty']_vars

\* C5: a fresh instance is Empty; a successful update of at least one element
\* leads to Accumulating, a successful update of no element keeps the state;
\* compute keeps the state and reset leads to Empty.
C5_StateMachine ==
    /\ Empty
    /\ [][/\ (op' = "update" /\ ret' = RetNone /\ last_numel' > 0) => Accumulating'
          /\ (op' = "update" /\ ret' = RetNone /\ last_numel' = 0) => (Empty' <=> Empty)
          /\ op' = "compute" => (Empty' <=> Empty)
          /\ op' = "reset" => Empty']_vars

\* A successful update of no element has left the instance Empty.
C5_Witness ==
    /\ op = "update"
    /\ ret = RetNone
    /\ last_numel = 0
    /\ Empty

\* C6: reset() puts sum_abs_error back to 0.0 and total to 0 whatever was
\* accumulated, and after a reset compute() is decided by the updates made
\* since then.
C6_ResetRestoresDefaults ==
    /\ [][op' = "reset" => (sum_abs_error' = Fin(0) /\ total' = 0)]_vars
    /\ [](discarded # "none" => compute(Self).value = FDiv(seen_sum, seen_total))

\* Accumulated error was reset away, one element without error was added and
\* compute() has returned 0.0.
C6_Witness ==
    /\ discarded = "some"
    /\ op = "compute"
    /\ total = 1
    /\ ret = RetValue(QVal(0, 0))

\* C7: compute() leaves both states as they were, and consecutive calls
\* return the same value.
C7_ComputeReadsOnly ==
    /\ [][op' = "compute" => (sum_abs_error' = sum_abs_error /\ total' = total)]_vars
    /\ [](\A i, j \in DOMAIN reads : reads[i] = reads[j])

\* Two consecutive compute() calls on an instance that holds error.
C7_Witness ==
    /\ Len(reads) >= 2
    /\ op = "compute"
    /\ ret.value.cls = "fin"
    /\ ret.value.sig > 0

\* C8: the combined entry point accumulates as update does (and raises as it
\* does), returns nothing when compute_on_step is false and compute()'s result
\* when it is true.
C8_ForwardUpdatesThenComputes ==
    [][op' = "forward" =>
          IF ret' = RetRaise
          THEN sum_abs_error' = sum_abs_error /\ total' = total
          ELSE /\ sum_abs_error' = seen_sum'
               /\ total' = total + last_numel'
               /\ total' = seen_total'
               /\ compute_on_step => ret' = RetValue(FDiv(seen_sum', seen_total'))
               /\ ~compute_on_step => ret' = RetNone]_vars

\* A forward call with compute_on_step false has accumulated without a result.
C8_Witness ==
    /\ op = "forward"
    /\ ~compute_on_step
    /\ ret = RetNone
    /\ total >= 3
    /\ IsFin(sum_abs_error)
    /\ sum_abs_error.v > 0

\* C10 as stated: sum_abs_error >= 0, total >= 0, and total = 0 only with
\* sum_abs_error = 0.
C10_Original ==
    /\ FGe(sum_abs_error, Fin(0))
    /\ total >= 0
    /\ total = 0 => sum_abs_error = Fin(0)

\* C10: sum_abs_error is >= 0 or NaN, total >= 0, and total = 0 only with
\* sum_abs_error = 0.
C10_NonNegativeOrNaN ==
    /\ IsNaN(sum_abs_error) \/ FGe(sum_abs_error, Fin(0))
    /\ total >= 0
    /\ total = 0 => sum_abs_error = Fin(0)

\* After a reset, an update has raised on an instance that holds one element
\* with an absolute error of one unit.
C10_Witness ==
    /\ op = "update"
    /\ ret = RetRaise
    /\ total = 1
    /\ sum_abs_error = Fin(1)
    /\ discarded = "some"

(***************************************************************************)
(* Properties of the two instances.                                        *)
(***************************************************************************)
\* C3 as stated: from the same state, two updates and one update of the
\* concatenation leave the same sum_abs_error and total.
C3_Original == phase = "compared" => split = joined

\* C3: from the same state, two updates and one update of the concatenation
\* leave the same total, and the same sum_abs_error whenever the float32
\* additions are exact (the errors add up to at most 2^24 units) or an error
\* is NaN.
C3_AdditiveWhenExact ==
    phase = "compared" =>
        /\ split.total = joined.total
        /\ (IsNaN(exact) \/ exact.v <= Big) => split = joined

\* The two ways have been compared on top of accumulated error, three
\* elements with an error of one unit each in all, and agree.
C3_Witness ==
    /\ phase = "compared"
    /\ IsFin(exact)
    /\ exact.v = 3
    /\ split.total = 3
    /\ split = joined

====
